---- MODULE Spec2Model ----
(***************************************************************************)
(* Stox: rate limiter (RateLimiter), request pipeline (BaseAPI) and the    *)
(* rate_limited decorator of src/src/apis/base_api.py; the paginated       *)
(* fetch MassiveApi.get_all_tickers of src/src/apis/massive_api.py.        *)
(*                                                                         *)
(* Time is counted in ticks of 0.1 s, the size of the buffer that          *)
(* wait_if_needed adds to its per-minute wait; time.time() is the clock    *)
(* `now`, which only moves forward.                                        *)
(***************************************************************************)
EXTENDS Integers, Sequences, FiniteSets, TLC

VARIABLES
    now,             \* time.time(), in ticks
    config,          \* APIConfig with its RateLimitConfig (immutable)
    minute_calls,    \* RateLimiter.minute_calls
    day_calls,       \* RateLimiter.day_calls
    last_call_time,  \* RateLimiter.last_call_time
    stats,           \* BaseAPI.stats
    pc,              \* per thread: position in the code
    local,           \* per thread: the locals of the running invocation
    recorded,        \* every instant record_call() has appended, in order
    ncalls,          \* invocations started so far
    fetch,           \* MassiveApi.get_all_tickers: the locals of its loop
    refused,         \* how often wait_if_needed() has raised quota-exceeded
    sent             \* the instant of every HTTP attempt sent, in order

vars == <<now, config, minute_calls, day_calls, last_call_time, stats, pc,
          local, recorded, ncalls, fetch, refused, sent>>

-----------------------------------------------------------------------------
(* Bounds and units *)

MaxCalls == 3
MaxRequests == 2
MaxRetries == 3
MaxFetch == 3
MaxSnapshots == 2

BUFFER == 1
SECOND == 10 * BUFFER
MINUTE == 60 * SECOND
DAY == 24 * 60 * 60 * SECOND

None == -1

Threads == {1, 2}

\* time between two invocations of a caller: of the decorator, of the
\* request pipeline
Gaps == {0, 3, MINUTE - 1, MINUTE, DAY}
RequestGaps == {0, DAY}
\* time a sleep may overshoot its duration by
Jitter == {0, 1}
\* time one wrapped function call or one session.request takes
Durations == {0, 1}

StartTime == SECOND

-----------------------------------------------------------------------------
(* Pure helpers *)

Max(a, b) == IF a >= b THEN a ELSE b

\* Python truthiness of an Optional number: None and 0 are false
Truthy(x) == x # None /\ x # 0

\* mutant: the comparison turned around, the expired timestamps kept
Prune_Reversed(calls, cutoff) == SelectSeq(calls, LAMBDA x : x < cutoff)

\* mutant: a timestamp exactly one window old kept
Prune_Inclusive(calls, cutoff) == SelectSeq(calls, LAMBDA x : x >= cutoff)

\* [t for t in calls if t > cutoff]
Prune(calls, cutoff) == SelectSeq(calls, LAMBDA x : x > cutoff)

\* mutant: the comparison of line 57 turned around
MinDelayPending_Reversed(current_time, cfg) ==
    /\ Truthy(last_call_time)
    /\ current_time - last_call_time > cfg.min_delay_seconds

MinDelayPending(current_time, cfg) ==
    /\ Truthy(last_call_time)
    /\ current_time - last_call_time < cfg.min_delay_seconds

MinDelayWait(current_time, cfg) ==
    cfg.min_delay_seconds - (current_time - last_call_time)

\* mutant: line 68 with > for >=
MinuteLimitReached_Strict(calls, cfg) == Len(calls) > cfg.calls_per_minute

MinuteLimitReached(calls, cfg) == Len(calls) >= cfg.calls_per_minute

\* mutant: line 71 with the buffer subtracted
MinuteWait_BufferSubtracted(current_time, oldest_call) ==
    MINUTE - (current_time - oldest_call) - BUFFER

\* mutant: line 71 without the 0.1 s buffer
MinuteWait_NoBuffer(current_time, oldest_call) ==
    MINUTE - (current_time - oldest_call)

\* mutant: line 71 adding the age of the oldest call instead of
\* subtracting it
MinuteWait_AgeAdded(current_time, oldest_call) ==
    MINUTE + (current_time - oldest_call) + BUFFER

MinuteWait(current_time, oldest_call) ==
    MINUTE - (current_time - oldest_call) + BUFFER

\* mutant: line 89 with > for >=
DayLimitReached_Strict(calls, cfg) == Len(calls) > cfg.calls_per_day

DayLimitReached(calls, cfg) == Len(calls) >= cfg.calls_per_day

\* number of timestamps of `calls` in the window (t - width, t]
InWindow(calls, t, width) ==
    Cardinality({i \in 1..Len(calls) : calls[i] > t - width /\ calls[i] <= t})

-----------------------------------------------------------------------------
(* Initial state *)

InitStats ==
    [total_calls |-> 0, successful_calls |-> 0, failed_calls |-> 0,
     retried_calls |-> 0, total_wait_time |-> 0]

NoLocal ==
    [caller |-> "", current_time |-> 0, asleep |-> 0, wake |-> 0, tmp |-> <<>>,
     after |-> "", start_wait |-> 0, slept |-> 0, delay_sleeps |-> 0,
     minute_sleeps |-> 0,
     method |-> "", retries |-> 0, attempts |-> 0, status |-> 0,
     transient |-> TRUE, caught |-> "", exc |-> "", loaded |-> FALSE,
     reg |-> 0, wait_time |-> 0, recs |-> 0, before |-> InitStats,
     last |-> [kind |-> "", code |-> 0],
     hist |-> <<>>, seen |-> <<>>, params |-> <<>>, wire |-> <<>>]

\* an absent next_url: None and '' are both false in `if next_url:`
NoUrl == ""

\* get_all_tickers is not running
NoFetch ==
    [pc |-> "idle", max_pages |-> None, all_tickers |-> <<>>, page |-> 1,
     next_url |-> NoUrl, nreq |-> 0, sent |-> <<>>, served |-> <<>>,
     failure |-> "", raised |-> ""]

InitWith(cfgs) ==
    /\ fetch = NoFetch
    /\ refused = 0
    /\ sent = <<>>
    /\ now = StartTime
    /\ config \in cfgs
    /\ minute_calls = <<>>
    /\ day_calls = <<>>
    /\ last_call_time = None
    /\ stats = InitStats
    /\ pc = [t \in Threads |-> "idle"]
    /\ local = [t \in Threads |-> NoLocal]
    /\ recorded = <<>>
    /\ ncalls = 0

\* Retry(...) of _create_session
StatusForcelist == {429, 500, 502, 503, 504}
AllowedMethods == {"HEAD", "GET", "OPTIONS", "POST"}

\* what the provider may answer, and the methods callers use
Statuses == {200, 404, 429, 503}
Methods == {"GET", "POST", "PUT"}
Outcomes ==
    [kind : {"status"}, code : Statuses]
        \cup [kind : {"timeout", "connection_error"}, code : {0}]

LimiterConfigs ==
    [calls_per_minute : {1, 2}, calls_per_day : {None, 1, 2},
     min_delay_seconds : {0, 5}, max_retries : {0}, enabled : {TRUE}]

-----------------------------------------------------------------------------
(* RateLimiter.wait_if_needed, one step per statement group *)

\* wait_if_needed returns normally to its caller
ReturnFromWait(t, loc) ==
    /\ pc' = [pc EXCEPT ![t] =
                IF loc.caller = "rate_limited" THEN "rl_func" ELSE "add_wait"]
    /\ local' = [local EXCEPT ![t] = loc]

\* lines 40-42: the call-history state of the limiter
History == <<minute_calls, day_calls, last_call_time>>

\* lines 52-59: read the clock, decide on the minimum-delay sleep
WaitStart(t) ==
    /\ pc[t] = "w_start"
    /\ LET cfg == config IN
       IF MinDelayPending(now, cfg)
       THEN /\ pc' = [pc EXCEPT ![t] = "w_sleep_min"]
            /\ local' = [local EXCEPT ![t].current_time = now,
                                      ![t].hist = History,
                                      ![t].asleep = now,
                                      ![t].wake = now + MinDelayWait(now, cfg),
                                      ![t].after = "w_check_min"]
       ELSE /\ pc' = [pc EXCEPT ![t] = "w_build_min"]
            /\ local' = [local EXCEPT ![t].current_time = now,
                                      ![t].hist = History,
                                      ![t].after = "w_check_min"]
    /\ UNCHANGED <<refused, sent, fetch, now, config, minute_calls, day_calls,
                   last_call_time, stats, recorded, ncalls>>

\* time.sleep(wait_time), entered at loc.asleep, has ended at instant
\* `woken`; then current_time = time.time()
Slept(loc, woken, after) ==
    [loc EXCEPT !.current_time = woken,
                !.slept = @ + (woken - loc.asleep),
                !.after = after]

\* a sleep ends no earlier than the instant it was to last until
WakeTimes(t) == {Max(now, local[t].wake) + j : j \in Jitter}

\* lines 60-61
SleepMinDelay(t) ==
    /\ pc[t] = "w_sleep_min"
    /\ \E woken \in WakeTimes(t) :
         /\ now' = woken
         /\ local' = [local EXCEPT ![t] =
                        [Slept(local[t], woken, "w_check_min")
                            EXCEPT !.delay_sleeps = @ + 1]]
    /\ pc' = [pc EXCEPT ![t] = "w_build_min"]
    /\ UNCHANGED <<refused, sent, fetch, config, minute_calls, day_calls,
                   last_call_time, stats, recorded, ncalls>>

\* lines 64-65 and 80-81, the list comprehension
BuildMinute(t) ==
    /\ pc[t] = "w_build_min"
    /\ local' = [local EXCEPT
                   ![t].tmp = Prune(minute_calls, local[t].current_time - MINUTE)]
    /\ pc' = [pc EXCEPT ![t] = "w_store_min"]
    /\ UNCHANGED <<refused, sent, fetch, now, config, minute_calls, day_calls,
                   last_call_time, stats, recorded, ncalls>>

\* lines 65 and 81, the assignment to self.minute_calls
StoreMinute(t) ==
    /\ pc[t] = "w_store_min"
    /\ minute_calls' = local[t].tmp
    /\ pc' = [pc EXCEPT ![t] = local[t].after]
    /\ local' = [local EXCEPT ![t].tmp = <<>>]
    /\ UNCHANGED <<refused, sent, fetch, now, config, day_calls,
                   last_call_time, stats, recorded, ncalls>>

\* lines 68-72
CheckMinute(t) ==
    /\ pc[t] = "w_check_min"
    /\ IF /\ MinuteLimitReached(minute_calls, config)
          /\ MinuteWait(local[t].current_time, minute_calls[1]) > 0
       THEN /\ pc' = [pc EXCEPT ![t] = "w_sleep_minute"]
            /\ local' = [local EXCEPT
                           ![t].asleep = now,
                           ![t].wake = now
                              + MinuteWait(local[t].current_time, minute_calls[1])]
       ELSE /\ pc' = [pc EXCEPT ![t] = "w_day"]
            /\ UNCHANGED local
    /\ UNCHANGED <<refused, sent, fetch, now, config, minute_calls, day_calls,
                   last_call_time, stats, recorded, ncalls>>

\* lines 77-78
SleepMinute(t) ==
    /\ pc[t] = "w_sleep_minute"
    /\ \E woken \in WakeTimes(t) :
         /\ now' = woken
         /\ local' = [local EXCEPT ![t] =
                        [Slept(local[t], woken, "w_day")
                            EXCEPT !.minute_sleeps = @ + 1]]
    /\ pc' = [pc EXCEPT ![t] = "w_build_min"]
    /\ UNCHANGED <<refused, sent, fetch, config, minute_calls, day_calls,
                   last_call_time, stats, recorded, ncalls>>

\* mutant: only 0 taken as "no daily limit"
DayLimitConfigured_ZeroOnly(cfg) == cfg.calls_per_day # 0

\* line 84: if self.config.calls_per_day
DayLimitConfigured(cfg) == Truthy(cfg.calls_per_day)

\* mutant: line 86 left out, the day history never pruned
CheckDay_Unpruned(t) ==
    /\ pc[t] = "w_day"
    /\ IF DayLimitConfigured(config)
       THEN /\ pc' = [pc EXCEPT ![t] = "w_store_day"]
            /\ local' = [local EXCEPT ![t].tmp = day_calls]
       ELSE ReturnFromWait(t, local[t])
    /\ UNCHANGED <<refused, sent, fetch, now, config, minute_calls, day_calls,
                   last_call_time, stats, recorded, ncalls>>

\* lines 84-87: the day history is pruned only when calls_per_day is set
CheckDay(t) ==
    /\ pc[t] = "w_day"
    /\ IF DayLimitConfigured(config)
       THEN /\ pc' = [pc EXCEPT ![t] = "w_store_day"]
            /\ local' = [local EXCEPT
                           ![t].tmp = Prune(day_calls, local[t].current_time - DAY)]
       ELSE ReturnFromWait(t, local[t])
    /\ UNCHANGED <<refused, sent, fetch, now, config, minute_calls, day_calls,
                   last_call_time, stats, recorded, ncalls>>

\* mutant: wait_if_needed called inside the try block, its exception
\* handled like a transport failure
AfterQuotaExceeded_Caught(caller) ==
    IF caller = "make_request" THEN "add_failed_exc" ELSE "done"

\* lines 97-100, 234 and 395: RateLimitException is raised outside any try
\* block and leaves the caller's frame
AfterQuotaExceeded(caller) == "done"

\* lines 87-100: assign the pruned day history, then raise or return
StoreDay(t) ==
    /\ pc[t] = "w_store_day"
    /\ day_calls' = local[t].tmp
    /\ IF DayLimitReached(day_calls', config)
       THEN /\ pc' = [pc EXCEPT ![t] = AfterQuotaExceeded(local[t].caller)]
            /\ local' = [local EXCEPT ![t].tmp = <<>>,
                                      ![t].exc = "RateLimitException"]
            /\ refused' = refused + 1
       ELSE /\ ReturnFromWait(t, [local[t] EXCEPT !.tmp = <<>>])
            /\ UNCHANGED refused
    /\ UNCHANGED <<sent, fetch, now, config, minute_calls, last_call_time,
                   stats, recorded, ncalls>>

-----------------------------------------------------------------------------
(* RateLimiter.record_call, lines 102-108 *)

\* line 104: current_time = time.time()
RecordStart(t) ==
    /\ pc[t] = "r_start"
    /\ local' = [local EXCEPT ![t].current_time = now]
    /\ pc' = [pc EXCEPT ![t] = "r_append"]
    /\ UNCHANGED <<refused, sent, fetch, now, config, minute_calls, day_calls,
                   last_call_time, stats, recorded, ncalls>>

\* mutant: the day history fed whether or not a daily limit is configured
RecordCall_DayAlways(current_time) ==
    /\ minute_calls' = Append(minute_calls, current_time)
    /\ day_calls' = Append(day_calls, current_time)
    /\ last_call_time' = current_time
    /\ recorded' = Append(recorded, current_time)

\* lines 105-108: the histories and last_call_time take current_time
RecordCall(current_time) ==
    /\ minute_calls' = Append(minute_calls, current_time)
    /\ day_calls' = IF Truthy(config.calls_per_day)
                    THEN Append(day_calls, current_time) ELSE day_calls
    /\ last_call_time' = current_time
    /\ recorded' = Append(recorded, current_time)

\* lines 105-108, then back in the caller: line 398 or line 266
RecordAppend(t) ==
    /\ pc[t] = "r_append"
    /\ RecordCall(local[t].current_time)
    /\ pc' = [pc EXCEPT ![t] =
                IF local[t].caller = "rate_limited" THEN "done" ELSE "add_total"]
    /\ local' = [local EXCEPT ![t].recs = @ + 1]
    /\ UNCHANGED <<refused, sent, fetch, now, config, stats, ncalls>>

RecordCallSteps(t) ==
    \/ RecordStart(t)
    \/ RecordAppend(t)

-----------------------------------------------------------------------------
(* The rate_limited decorator, lines 392-398 *)

\* line 395: the wrapped method is called some time after the previous one
RateLimitedCall(t) ==
    /\ pc[t] = "idle"
    /\ ncalls < MaxCalls
    /\ ncalls' = ncalls + 1
    /\ \E g \in Gaps : now' = now + g
    /\ pc' = [pc EXCEPT ![t] = "w_start"]
    /\ local' = [local EXCEPT ![t] = [NoLocal EXCEPT !.caller = "rate_limited"]]
    /\ UNCHANGED <<refused, sent, fetch, config, minute_calls, day_calls,
                   last_call_time, stats, recorded>>

\* line 396: func runs, and returns or raises
RateLimitedFunc(t) ==
    /\ pc[t] = "rl_func"
    /\ \E d \in Durations : now' = now + d
    /\ \E raises \in BOOLEAN :
         IF raises
         THEN /\ pc' = [pc EXCEPT ![t] = "done"]
              /\ local' = [local EXCEPT ![t].exc = "Exception"]
         ELSE /\ pc' = [pc EXCEPT ![t] = "r_start"]
              /\ UNCHANGED local
    /\ UNCHANGED <<refused, sent, fetch, config, minute_calls, day_calls,
                   last_call_time, stats, recorded, ncalls>>

\* the invocation's frame is left: its result has reached the caller
Return(t) ==
    /\ pc[t] = "done"
    /\ pc' = [pc EXCEPT ![t] = "idle"]
    /\ local' = [local EXCEPT ![t] = NoLocal]
    /\ UNCHANGED <<refused, sent, fetch, now, config, minute_calls, day_calls,
                   last_call_time, stats, recorded, ncalls>>

WaitIfNeeded(t) ==
    \/ WaitStart(t)
    \/ SleepMinDelay(t)
    \/ BuildMinute(t)
    \/ StoreMinute(t)
    \/ CheckMinute(t)
    \/ SleepMinute(t)
    \/ CheckDay(t)
    \/ StoreDay(t)

-----------------------------------------------------------------------------
(* One sequential caller of the limiter, through the decorator *)

InitLimiter == InitWith(LimiterConfigs)

NextLimiter ==
    \/ RateLimitedCall(1)
    \/ WaitIfNeeded(1)
    \/ RateLimitedFunc(1)
    \/ RecordCallSteps(1)
    \/ Return(1)

SpecLimiter == InitLimiter /\ [][NextLimiter]_vars

-----------------------------------------------------------------------------
(* BaseAPI._make_request, lines 200-290 *)

PipelineConfigs ==
    [calls_per_minute : {1}, calls_per_day : {None, 1},
     min_delay_seconds : {0, 5}, max_retries : {0, 1, MaxRetries},
     enabled : BOOLEAN]

\* mutant: the enabled check of line 229 left out
Disabled_Unchecked(cfg) == FALSE

\* line 229
Disabled(cfg) == ~cfg.enabled

\* mutant: every error status retried, not only those of the forcelist
Retryable_AnyError(o, method) ==
    \/ o.kind = "status" /\ method \in AllowedMethods /\ o.code >= 400
    \/ o.kind = "timeout" /\ method \in AllowedMethods
    \/ o.kind = "connection_error"

\* mutant: one retry too many
RetryTotal_OneMore(cfg) == cfg.max_retries + 1

\* line 183: Retry(total=self.config.max_retries)
RetryTotal(cfg) == cfg.max_retries

\* lines 229-234: a disabled configuration raises at once, otherwise the
\* call enters rate-limiter admission
MakeRequest(t, W) ==
    /\ pc[t] = "idle"
    /\ ncalls < W.requests
    /\ ncalls' = ncalls + 1
    /\ \E g \in W.gaps : now' = now + g
    /\ \E m \in W.methods :
         IF Disabled(config)
         THEN /\ pc' = [pc EXCEPT ![t] = "done"]
              /\ local' = [local EXCEPT ![t] =
                             [NoLocal EXCEPT !.caller = "make_request",
                                             !.method = m,
                                             !.before = stats,
                                             !.exc = "APIException"]]
         ELSE /\ pc' = [pc EXCEPT ![t] = "w_start"]
              /\ local' = [local EXCEPT ![t] =
                             [NoLocal EXCEPT !.caller = "make_request",
                                             !.method = m,
                                             !.start_wait = now',
                                             !.before = stats,
                                             !.retries = RetryTotal(config)]]
    /\ UNCHANGED <<refused, sent, fetch, config, minute_calls, day_calls,
                   last_call_time, stats, recorded>>

\* the statements self.stats[key] += amount, each a read and then a write
AddSites ==
    {"add_wait", "add_total", "add_failed", "add_success", "add_failed_exc"}

\* mutant: line 266 counting into failed_calls
StatKey_TotalAsFailed(site) ==
    CASE site = "add_wait" -> "total_wait_time"
      [] site = "add_success" -> "successful_calls"
      [] OTHER -> "failed_calls"

StatKey(site) ==
    CASE site = "add_wait" -> "total_wait_time"
      [] site = "add_total" -> "total_calls"
      [] site = "add_success" -> "successful_calls"
      [] OTHER -> "failed_calls"

\* where control goes after the statement
AfterAdd(site) ==
    CASE site = "add_wait" -> "mr_request"
      [] site = "add_total" -> "mr_check"
      [] OTHER -> "done"

\* lines 273, 284, 290: what is raised after the counter is updated
RaisedAfter(site) ==
    IF site \in {"add_failed", "add_failed_exc"} THEN "APIException" ELSE ""

\* lines 235-236, 266, 270, 275, 281, 287: the read of the counter
StatsLoad(t) ==
    /\ pc[t] \in AddSites
    /\ ~local[t].loaded
    /\ local' = [local EXCEPT
                   ![t].loaded = TRUE,
                   ![t].reg = stats[StatKey(pc[t])],
                   ![t].wait_time = IF pc[t] = "add_wait"
                                    THEN now - local[t].start_wait ELSE @]
    /\ UNCHANGED <<refused, sent, fetch, now, config, minute_calls, day_calls,
                   last_call_time, stats, pc, recorded, ncalls>>

\* the write of the counter
StatsStore(t) ==
    /\ pc[t] \in AddSites
    /\ local[t].loaded
    /\ stats' = [stats EXCEPT ![StatKey(pc[t])] =
                    local[t].reg
                      + (IF pc[t] = "add_wait" THEN local[t].wait_time ELSE 1)]
    /\ pc' = [pc EXCEPT ![t] = AfterAdd(pc[t])]
    /\ local' = [local EXCEPT ![t].loaded = FALSE,
                              ![t].reg = 0,
                              ![t].exc = RaisedAfter(pc[t])]
    /\ UNCHANGED <<refused, sent, fetch, now, config, minute_calls, day_calls,
                   last_call_time, recorded, ncalls>>

\* urllib3's Retry.is_retry / increment: which outcomes of an attempt the
\* session retries
Retryable(o, method) ==
    \/ o.kind = "status" /\ method \in AllowedMethods
                         /\ o.code \in StatusForcelist
    \/ o.kind = "timeout" /\ method \in AllowedMethods
    \/ o.kind = "connection_error"

\* the requests exception an outcome that is not retried surfaces as:
\* line 280 catches Timeout, line 286 the other RequestExceptions
ExceptionOf(o) ==
    CASE o.kind = "timeout" -> "Timeout"
      [] o.kind = "status" -> "RetryError"
      [] OTHER -> "ConnectionError"

\* the attempt was answered with a status of the forcelist
Transient(o) == o.kind = "status" /\ o.code \in StatusForcelist

\* lines 253-262: one HTTP attempt of session.request and what follows it;
\* the time session.request takes has passed when it returns or raises.
\* The attempt is entered in `sent` for the workloads that keep that log.
Attempt(t, W) ==
    /\ pc[t] = "mr_request"
    /\ \E o \in W.outcomes :
         IF Retryable(o, local[t].method) /\ local[t].retries > 0
         THEN /\ pc' = pc
              /\ now' = now
              /\ local' = [local EXCEPT ![t].attempts = @ + 1,
                                        ![t].transient = @ /\ Transient(o),
                                        ![t].retries = @ - 1,
                                                ![t].last = o]
         ELSE /\ \E d \in W.durations : now' = now + d
              /\ IF o.kind = "status" /\ ~Retryable(o, local[t].method)
                 THEN /\ pc' = [pc EXCEPT ![t] = "r_start"]
                      /\ local' = [local EXCEPT ![t].attempts = @ + 1,
                                                ![t].transient = @ /\ Transient(o),
                                                ![t].status = o.code,
                                                ![t].last = o]
                 ELSE /\ pc' = [pc EXCEPT ![t] = "add_failed_exc"]
                      /\ local' = [local EXCEPT ![t].attempts = @ + 1,
                                                ![t].transient = @ /\ Transient(o),
                                                ![t].caught = ExceptionOf(o),
                                                ![t].last = o]
    /\ sent' = IF W.traced THEN Append(sent, now) ELSE sent
    /\ UNCHANGED <<refused, fetch, config, minute_calls, day_calls,
                   last_call_time, stats, recorded, ncalls>>

\* mutant: only server errors counted as failures
IsErrorStatus_ServerOnly(status) == status >= 500

\* line 269
IsErrorStatus(status) == status >= 400

\* line 269
CheckStatus(t) ==
    /\ pc[t] = "mr_check"
    /\ pc' = [pc EXCEPT ![t] =
                IF IsErrorStatus(local[t].status)
                THEN "add_failed" ELSE "add_success"]
    /\ UNCHANGED <<refused, sent, fetch, now, config, minute_calls, day_calls,
                   last_call_time, stats, local, recorded, ncalls>>

MakeRequestSteps(t, W) ==
    \/ MakeRequest(t, W)
    \/ WaitIfNeeded(t)
    \/ StatsLoad(t)
    \/ StatsStore(t)
    \/ Attempt(t, W)
    \/ RecordCallSteps(t)
    \/ CheckStatus(t)
    \/ Return(t)

-----------------------------------------------------------------------------
(* One sequential caller of the request pipeline *)

Init == InitWith(PipelineConfigs)

\* what the caller asks for and what the provider answers
Workload ==
    [requests |-> MaxRequests, gaps |-> RequestGaps, methods |-> Methods,
     outcomes |-> Outcomes, durations |-> Durations, traced |-> FALSE]

Next == MakeRequestSteps(1, Workload)

Spec == Init /\ [][Next]_vars

-----------------------------------------------------------------------------
(* Claims about the limiter under one sequential caller *)

\* wait_if_needed has just returned normally to thread t
Admitted(t) ==
    \/ pc[t] = "rl_func"
    \/ pc[t] = "add_wait" /\ ~local[t].loaded

\* C1: with one sequential caller that calls wait_if_needed() and then
\* record_call(), every window of 60 consecutive seconds (t - 60 s, t]
\* holds at most calls_per_minute recorded timestamps.
C1_MinuteWindowBound ==
    \A i \in 1..Len(recorded) :
        InWindow(recorded, recorded[i], MINUTE) <= config.calls_per_minute

\* a call was recorded after a per-minute sleep and fills the window
C1_Witness ==
    /\ pc[1] = "done"
    /\ local[1].recs = 1
    /\ local[1].minute_sleeps = 1
    /\ Len(recorded) > config.calls_per_minute
    /\ InWindow(recorded, now, MINUTE) = config.calls_per_minute

\* C3: with calls_per_day set and one sequential caller, every rolling
\* 24-hour window (t - 24 h, t] holds at most calls_per_day recorded
\* timestamps.
C3_DayWindowBound ==
    Truthy(config.calls_per_day) =>
        \A i \in 1..Len(recorded) :
            InWindow(recorded, recorded[i], DAY) <= config.calls_per_day

\* more calls than the daily cap were recorded over time, the last one after
\* the oldest had left the 24-hour window
C3_Witness ==
    /\ Truthy(config.calls_per_day)
    /\ pc[1] = "done"
    /\ local[1].recs = 1
    /\ Len(recorded) > config.calls_per_day
    /\ InWindow(recorded, now, DAY) = config.calls_per_day

\* the daily quota is used up at this instant
DayQuotaUsed ==
    /\ Truthy(config.calls_per_day)
    /\ InWindow(day_calls, now, DAY) >= config.calls_per_day

\* C4: with calls_per_day calls recorded in the last 24 hours,
\* wait_if_needed() raises quota-exceeded without suspending: it enters no
\* min-delay sleep and no per-minute sleep, and an invocation that ends in
\* quota-exceeded has slept for no time at all.
C4_QuotaRaisedWithoutSleep ==
    \A t \in Threads :
        /\ pc[t] \in {"w_sleep_min", "w_sleep_minute"} => ~DayQuotaUsed
        /\ (pc[t] = "done" /\ local[t].exc = "RateLimitException") =>
              /\ local[t].slept = 0
              /\ local[t].delay_sleeps = 0
              /\ local[t].minute_sleeps = 0

\* C5: whenever wait_if_needed() returns normally and a call was recorded
\* before, the instant of return is at least min_delay_seconds after
\* last_call_time, and no two recorded calls are closer than that.
C5_MinDelayRespected ==
    /\ \A t \in Threads :
          (Admitted(t) /\ Truthy(last_call_time)) =>
              now - last_call_time >= config.min_delay_seconds
    /\ \A i \in 2..Len(recorded) :
          recorded[i] - recorded[i - 1] >= config.min_delay_seconds

\* wait_if_needed returned after a min-delay sleep, exactly on the boundary
C5_Witness ==
    /\ pc[1] = "rl_func"
    /\ local[1].delay_sleeps = 1
    /\ config.min_delay_seconds > 0
    /\ now - last_call_time = config.min_delay_seconds

\* C6: whenever wait_if_needed() returns normally, fewer than
\* calls_per_minute minute-history timestamps are younger than 60 s and, if
\* calls_per_day is set, fewer than calls_per_day day-history timestamps are
\* younger than 24 h.
C6_AdmissionPostcondition ==
    \A t \in Threads :
        Admitted(t) =>
            /\ InWindow(minute_calls, now, MINUTE) < config.calls_per_minute
            /\ Truthy(config.calls_per_day) =>
                  InWindow(day_calls, now, DAY) < config.calls_per_day

\* wait_if_needed returned after a per-minute sleep, with exactly one slot
\* left in each window
C6_Witness ==
    /\ pc[1] = "rl_func"
    /\ local[1].minute_sleeps = 1
    /\ InWindow(minute_calls, now, MINUTE) = config.calls_per_minute - 1
    /\ Truthy(config.calls_per_day)
    /\ InWindow(day_calls, now, DAY) = config.calls_per_day - 1

-----------------------------------------------------------------------------
(* Two threads sharing one pipeline and its limiter *)

ConcurrentConfigs ==
    [calls_per_minute : {1}, calls_per_day : {None, 1},
     min_delay_seconds : {5}, max_retries : {0}, enabled : {TRUE}]

\* one GET request per thread, issued back to back
ConcurrentWorkload ==
    [requests |-> Cardinality(Threads), gaps |-> {0}, methods |-> {"GET"},
     outcomes |-> [kind : {"status"}, code : {200, 503}],
     durations |-> Durations, traced |-> FALSE]

InitConcurrent == InitWith(ConcurrentConfigs)

NextConcurrent == \E t \in Threads : MakeRequestSteps(t, ConcurrentWorkload)

SpecConcurrent == InitConcurrent /\ [][NextConcurrent]_vars

\* C2: with two callers sharing one RateLimiter, admission and record are
\* one atomic unit, so the calls recorded in any 60-second window never
\* exceed calls_per_minute, nor those of any 24-hour window calls_per_day.
C2_SharedLimiterBound ==
    /\ \A i \in 1..Len(recorded) :
          InWindow(recorded, recorded[i], MINUTE) <= config.calls_per_minute
    /\ Truthy(config.calls_per_day) =>
          \A i \in 1..Len(recorded) :
              InWindow(recorded, recorded[i], DAY) <= config.calls_per_day

-----------------------------------------------------------------------------
(* Claims about one _make_request invocation *)

\* the invocation of thread t has reached its caller
Finished(t) == pc[t] = "done" /\ local[t].caller = "make_request"

\* C7: every _make_request() that dispatched a request to the transport
\* calls record_call() exactly once, whatever the outcome.
C7_RecordedOncePerDispatch ==
    \A t \in Threads :
        (Finished(t) /\ local[t].attempts > 0) => local[t].recs = 1

\* C8: whenever the transport returns a response, of any status,
\* record_call() has been invoked exactly once and total_calls has risen by
\* exactly 1 when the invocation ends, however many attempts were retried.
C8_ResponseRecordedOnce ==
    \A t \in Threads :
        /\ local[t].recs <= 1
        /\ (Finished(t) /\ local[t].status # 0) =>
              /\ local[t].recs = 1
              /\ stats.total_calls = local[t].before.total_calls + 1
              /\ recorded # <<>>
              /\ recorded[Len(recorded)] = last_call_time

\* a response with an error status arrived after a retried attempt
C8_Witness ==
    /\ Finished(1)
    /\ local[1].status >= 400
    /\ local[1].attempts >= 2
    /\ local[1].before.total_calls = 1

\* C9: with max_retries = n and a retry-eligible method, against a
\* transport that answers every attempt with a status of the forcelist, one
\* _make_request() makes exactly n + 1 HTTP attempts and then raises; no
\* invocation makes more than n + 1 attempts.
C9_RetryBound ==
    \A t \in Threads :
        /\ local[t].attempts <= config.max_retries + 1
        /\ ( /\ local[t].attempts > 0
             /\ local[t].transient
             /\ local[t].method \in AllowedMethods ) =>
              /\ pc[t] \in {"mr_request", "add_failed_exc", "done"}
              /\ pc[t] = "mr_request" =>
                    local[t].attempts <= config.max_retries
              /\ pc[t] # "mr_request" =>
                    /\ local[t].attempts = config.max_retries + 1
                    /\ local[t].caught = "RetryError"
                    /\ local[t].status = 0
              /\ pc[t] = "done" => local[t].exc = "APIException"

\* four attempts, all answered 429 or 503, then the failure is raised
C9_Witness ==
    /\ Finished(1)
    /\ config.max_retries = MaxRetries
    /\ local[1].transient
    /\ local[1].method = "POST"
    /\ local[1].attempts = MaxRetries + 1
    /\ local[1].exc = "APIException"

\* C10: with config.enabled false, _make_request() raises and makes no
\* network attempt, never enters the rate limiter, and leaves the
\* histories, last_call_time and every counter unchanged.
C10_DisabledTouchesNothing ==
    ~config.enabled =>
        /\ minute_calls = <<>>
        /\ day_calls = <<>>
        /\ last_call_time = None
        /\ recorded = <<>>
        /\ stats = InitStats
        /\ \A t \in Threads :
              /\ pc[t] \in {"idle", "done"}
              /\ local[t].attempts = 0
              /\ local[t].recs = 0
              /\ pc[t] = "done" => local[t].exc = "APIException"

\* a second request on a disabled configuration has been refused
C10_Witness ==
    /\ ~config.enabled
    /\ Finished(1)
    /\ ncalls = 2
    /\ local[1].exc = "APIException"

\* C11: when admission raises quota-exceeded inside _make_request(), the
\* caller receives RateLimitException at once: the invocation is over, it
\* made no network attempt, recorded no call and left total_calls,
\* successful_calls and failed_calls as they were.
C11_QuotaExceededPropagates ==
    \A t \in Threads :
        (local[t].caller = "make_request"
            /\ local[t].exc = "RateLimitException") =>
            /\ pc[t] = "done"
            /\ local[t].attempts = 0
            /\ local[t].recs = 0
            /\ local[t].caught = ""
            /\ stats.total_calls = local[t].before.total_calls
            /\ stats.successful_calls = local[t].before.successful_calls
            /\ stats.failed_calls = local[t].before.failed_calls

\* the second request of a pipeline with calls_per_day = 1 is refused
C11_Witness ==
    /\ Finished(1)
    /\ local[1].exc = "RateLimitException"
    /\ local[1].before.total_calls = 1
    /\ Len(day_calls) = 1

\* counters gained by the invocation of thread t
Gained(t, key) == stats[key] - local[t].before[key]

\* C12: a dispatched call that gets a response with status >= 400, a
\* timeout or any other transport failure increments failed_calls and raises
\* APIException; otherwise it increments successful_calls and returns the
\* response. Exactly one of the two counters rises, by exactly 1.
C12_OutcomeClassification ==
    \A t \in Threads :
        (Finished(t) /\ local[t].attempts > 0) =>
            /\ Gained(t, "successful_calls") + Gained(t, "failed_calls") = 1
            /\ Gained(t, "successful_calls") \in {0, 1}
            /\ (local[t].status >= 400 \/ local[t].caught # "") <=>
                  Gained(t, "failed_calls") = 1
            /\ Gained(t, "failed_calls") = 1 <=> local[t].exc = "APIException"
            /\ Gained(t, "successful_calls") = 1 <=>
                  (local[t].exc = "" /\ local[t].status \in 1..399)

\* a 404 response was counted as a failure after an earlier success
C12_Witness ==
    /\ Finished(1)
    /\ local[1].status = 404
    /\ local[1].before.successful_calls = 1
    /\ stats.failed_calls = 1
    /\ stats.successful_calls = 1

\* C13: total_calls, successful_calls and failed_calls never decrease, and
\* every dispatched _make_request() raises total_calls by exactly 1 and
\* exactly one of successful_calls / failed_calls by exactly 1, whatever the
\* outcome and the number of retried attempts.
C13_CountersOncePerCall ==
    \A t \in Threads :
        /\ Gained(t, "total_calls") >= 0
        /\ Gained(t, "successful_calls") >= 0
        /\ Gained(t, "failed_calls") >= 0
        /\ (Finished(t) /\ local[t].attempts > 0) =>
              /\ Gained(t, "total_calls") = 1
              /\ Gained(t, "successful_calls") + Gained(t, "failed_calls") = 1

\* C14: an error status outside the forcelist is surfaced on its first
\* occurrence and raises the API error, so an invocation whose first answer
\* it is makes exactly one attempt; for a method outside
\* GET/HEAD/OPTIONS/POST no status is retried at all.
C14_OnlyTransientRetried ==
    \A t \in Threads :
        LET o == local[t].last IN
        (local[t].attempts > 0 /\ o.kind = "status") =>
            /\ (o.code \notin StatusForcelist
                  \/ local[t].method \notin AllowedMethods) =>
                  /\ pc[t] # "mr_request"
                  /\ local[t].status = o.code
                  /\ local[t].caught = ""
            /\ (Finished(t) /\ o.code >= 400 /\ local[t].status = o.code) =>
                  local[t].exc = "APIException"
            /\ pc[t] = "mr_request" =>
                  /\ o.code \in StatusForcelist
                  /\ local[t].method \in AllowedMethods

\* a single attempt answered 404 has raised; retries were still available
C14_Witness ==
    /\ Finished(1)
    /\ local[1].status = 404
    /\ local[1].attempts = 1
    /\ local[1].retries = MaxRetries
    /\ local[1].exc = "APIException"

\* a PUT answered 503 is handed back after one attempt
C14_WitnessMethod ==
    /\ Finished(1)
    /\ local[1].method = "PUT"
    /\ local[1].status = 503
    /\ local[1].attempts = 1
    /\ local[1].retries > 0

-----------------------------------------------------------------------------
(* MassiveApi.get_all_tickers, src/src/apis/massive_api.py lines 85-167 *)

\* the provider as configured by settings.py
MassiveConfigs ==
    [calls_per_minute : {60}, calls_per_day : {None},
     min_delay_seconds : {5}, max_retries : {3}, enabled : {TRUE}]

\* next_url values a provider hands out: a path and a full URL
Cursors == {"/v3/reference/tickers?cursor=c",
            "https://api.massive.com/v3/reference/tickers?cursor=c"}

\* next_url.startswith('http')
StartsWithHttp(url) ==
    url = "https://api.massive.com/v3/reference/tickers?cursor=c"

\* the 'results' lists a response can carry
PageResults == {<<>>, <<1, 2>>, <<3>>}

\* the JSON bodies a page request can be answered with
Pages == [results : PageResults, next_url : Cursors \cup {NoUrl}]

\* what self.get() / self.get_tickers() can raise
PageFailures == {"APIException", "RateLimitException"}

\* the max_pages arguments of the callers
MaxPagesChoices == {None, 0, 1, 2}

\* lines 114-127: where the request of this iteration is sent
Target(next_url) ==
    IF next_url # NoUrl
    THEN IF StartsWithHttp(next_url)
         THEN [base_url |-> FALSE, path |-> next_url, params |-> FALSE]
         ELSE [base_url |-> TRUE, path |-> next_url, params |-> FALSE]
    ELSE [base_url |-> TRUE, path |-> "/reference/tickers", params |-> TRUE]

\* mutant: the cap compared one page early
PageCapReached_AtCap(max_pages, page) ==
    Truthy(max_pages) /\ page >= max_pages

\* line 109: if max_pages and page > max_pages
PageCapReached(max_pages, page) ==
    Truthy(max_pages) /\ page > max_pages

\* mutant: the new page put in front of the list
Extend_Prepend(all_tickers, results) == results \o all_tickers

\* lines 137 and 155: all_tickers.extend(results)
Extend(all_tickers, results) == all_tickers \o results

\* lines 139 and 157, negated: if not next_url or len(results) == 0: break
MorePages(data) == data.next_url # NoUrl /\ Len(data.results) # 0

\* mutant: the cursor of the first response kept for every later request
OnPage_StaleCursor(f, data) ==
    [f EXCEPT !.served = Append(@, data),
              !.next_url = IF f.next_url = NoUrl THEN data.next_url ELSE @,
              !.all_tickers = Extend(@, data.results),
              !.page = IF MorePages(data) THEN @ + 1 ELSE @,
              !.pc = IF MorePages(data) THEN "loop" ELSE "returned"]

\* lines 129-143 and 146-160: a response has arrived
OnPage(f, data) ==
    [f EXCEPT !.served = Append(@, data),
              !.next_url = data.next_url,
              !.all_tickers = Extend(@, data.results),
              !.page = IF MorePages(data) THEN @ + 1 ELSE @,
              !.pc = IF MorePages(data) THEN "loop" ELSE "returned"]

\* mutant: the failure handed on to the caller
OnPageFailure_Reraised(f, e) ==
    [f EXCEPT !.failure = e, !.raised = e, !.pc = "returned"]

\* lines 162-167: except Exception: log, break, return all_tickers
OnPageFailure(f, e) ==
    [f EXCEPT !.failure = e, !.pc = "returned"]

\* lines 85-104: the call and its initial locals
GetAllTickers ==
    /\ fetch.pc = "idle"
    /\ \E max_pages \in MaxPagesChoices :
          fetch' = [NoFetch EXCEPT !.pc = "loop", !.max_pages = max_pages]
    /\ UNCHANGED <<refused, sent, now, config, minute_calls, day_calls,
                   last_call_time, stats, pc, local, recorded, ncalls>>

\* lines 108-111: the head of `while True`
LoopHead ==
    /\ fetch.pc = "loop"
    /\ fetch' = [fetch EXCEPT !.pc =
                    IF PageCapReached(fetch.max_pages, fetch.page)
                    THEN "returned" ELSE "fetch"]
    /\ UNCHANGED <<refused, sent, now, config, minute_calls, day_calls,
                   last_call_time, stats, pc, local, recorded, ncalls>>

\* lines 113-164: one page request and what the loop does with its outcome
FetchPage ==
    /\ fetch.pc = "fetch"
    /\ fetch.nreq < MaxFetch
    /\ LET f == [fetch EXCEPT !.nreq = @ + 1,
                              !.sent = Append(@, Target(fetch.next_url))]
       IN  \/ \E e \in PageFailures : fetch' = OnPageFailure(f, e)
           \/ \E data \in Pages : fetch' = OnPage(f, data)
    /\ UNCHANGED <<refused, sent, now, config, minute_calls, day_calls,
                   last_call_time, stats, pc, local, recorded, ncalls>>

InitFetch == InitWith(MassiveConfigs)

NextFetch ==
    \/ GetAllTickers
    \/ LoopHead
    \/ FetchPage

SpecFetch == InitFetch /\ [][NextFetch]_vars

-----------------------------------------------------------------------------
(* Claims about get_all_tickers *)

\* the results of the pages received so far, in the order they arrived
RECURSIVE Concat(_)
Concat(pages) ==
    IF pages = <<>> THEN <<>> ELSE pages[1].results \o Concat(Tail(pages))

\* every response so far was a non-empty page with the same next_url
EchoProvider ==
    \A i \in 1..Len(fetch.served) :
        /\ fetch.served[i].results # <<>>
        /\ fetch.served[i].next_url # NoUrl
        /\ fetch.served[i].next_url = fetch.served[1].next_url

\* against such a provider, with max_pages unset, the loop is back at its
\* head after every response, with the same next_url to request again
EchoLoopGoesOn ==
    (/\ fetch.max_pages = None
     /\ fetch.failure = ""
     /\ fetch.served # <<>>
     /\ EchoProvider) =>
        /\ fetch.pc \in {"loop", "fetch"}
        /\ fetch.next_url = fetch.served[1].next_url

\* C15: with max_pages unset, against a provider that never fails and
\* answers every request with a non-empty page and the same next_url, the
\* loop terminates: however many responses are allowed, it has returned
\* once it has received them.
C15_EchoedCursorTerminates ==
    (/\ fetch.max_pages = None
     /\ fetch.failure = ""
     /\ EchoProvider
     /\ Len(fetch.served) = MaxFetch) => fetch.pc = "returned"

\* C16: whatever max_pages >= 0 the caller supplies, 0 included, and
\* whatever the provider does, one invocation issues at most max_pages page
\* requests.
C16_AtMostMaxPagesRequests ==
    fetch.max_pages # None => fetch.nreq <= fetch.max_pages

\* the i-th response meets a condition that ends the pagination
StopAfter(i) ==
    \/ fetch.served[i].next_url = NoUrl
    \/ fetch.served[i].results = <<>>
    \/ fetch.max_pages # None /\ i + 1 > fetch.max_pages

\* C17: the first response whose next_url is absent, or whose results are
\* empty, or after which the next page number would exceed max_pages, is
\* the last request of the invocation; pages [1,2], [3], [] that all carry
\* a cursor give [1,2,3] after exactly 3 requests.
C17_FirstStopConditionWins ==
    /\ \A i \in 1..Len(fetch.served) :
          StopAfter(i) =>
              /\ i = Len(fetch.served)
              /\ fetch.nreq = i
              /\ fetch.pc \in {"loop", "returned"}
    /\ (Len(fetch.served) = 3
          /\ fetch.served[1].results = <<1, 2>>
          /\ fetch.served[2].results = <<3>>
          /\ fetch.served[3].results = <<>>) =>
          /\ fetch.pc = "returned"
          /\ fetch.nreq = 3
          /\ fetch.all_tickers = <<1, 2, 3>>

\* C18: with max_pages = k >= 1 and a provider whose pages are all
\* non-empty and carry a next cursor, the invocation issues exactly k
\* requests and returns exactly the items of pages 1..k.
C18_PageCapExact ==
    (/\ fetch.pc = "returned"
     /\ fetch.max_pages # None
     /\ fetch.max_pages >= 1
     /\ fetch.failure = ""
     /\ \A i \in 1..Len(fetch.served) : MorePages(fetch.served[i])) =>
        /\ fetch.nreq = fetch.max_pages
        /\ Len(fetch.served) = fetch.max_pages
        /\ fetch.all_tickers = Concat(fetch.served)

\* max_pages = 2 against a provider with more pages: two requests
C18_Witness ==
    /\ fetch.pc = "returned"
    /\ fetch.max_pages = 2
    /\ fetch.failure = ""
    /\ fetch.nreq = 2
    /\ \A i \in 1..Len(fetch.served) : MorePages(fetch.served[i])
    /\ fetch.all_tickers = <<1, 2, 3>>

\* max_pages = 1: only the first page, exactly one request
C18_WitnessOnePage ==
    /\ fetch.pc = "returned"
    /\ fetch.max_pages = 1
    /\ fetch.nreq = 1
    /\ fetch.served # <<>>
    /\ MorePages(fetch.served[1])

\* C19: a failure raised by a page request is caught in get_all_tickers():
\* nothing is raised to the caller, the failing request is the last one, and
\* the list returned holds exactly the items of the pages received before.
C19_PageFailureCaught ==
    fetch.failure # "" =>
        /\ fetch.pc = "returned"
        /\ fetch.raised = ""
        /\ fetch.nreq = Len(fetch.served) + 1
        /\ fetch.all_tickers = Concat(fetch.served)
        /\ \A i \in 1..Len(fetch.served) : MorePages(fetch.served[i])

\* the second page request was refused by the daily quota
C19_Witness ==
    /\ fetch.failure = "RateLimitException"
    /\ Len(fetch.served) = 1
    /\ fetch.all_tickers = <<1, 2>>
    /\ fetch.pc = "returned"

\* the first page request failed: the empty list is returned
C19_WitnessFirstPage ==
    /\ fetch.failure = "APIException"
    /\ fetch.nreq = 1
    /\ fetch.all_tickers = <<>>
    /\ fetch.pc = "returned"

\* C20: the list is the concatenation of the results of the pages in the
\* order they were fetched, each page's items in the order it had them:
\* nothing dropped, duplicated or reordered.
C20_ConcatenationInOrder ==
    /\ fetch.all_tickers = Concat(fetch.served)
    /\ fetch.pc = "returned" => Len(fetch.served) +
          (IF fetch.failure = "" THEN 0 ELSE 1) = fetch.nreq

\* two pages, the second one first in item numbers
C20_Witness ==
    /\ fetch.pc = "returned"
    /\ Len(fetch.served) = 2
    /\ fetch.all_tickers = <<3, 1, 2>>

\* C21: the first request of get_all_tickers() is the initial one (base URL,
\* /reference/tickers, with parameters); every later request targets the
\* next_url of the response just before it, verbatim when it starts with
\* 'http' and appended to base_url otherwise.
C21_CursorChaining ==
    \A i \in 1..Len(fetch.sent) :
        IF i = 1
        THEN fetch.sent[i] = [base_url |-> TRUE, path |-> "/reference/tickers",
                              params |-> TRUE]
        ELSE /\ i - 1 <= Len(fetch.served)
             /\ fetch.served[i - 1].next_url # NoUrl
             /\ fetch.sent[i].path = fetch.served[i - 1].next_url
             /\ fetch.sent[i].params = FALSE
             /\ fetch.sent[i].base_url =
                   ~StartsWithHttp(fetch.served[i - 1].next_url)

\* the second response changed the cursor from a path to a full URL, and
\* the third request followed it
C21_Witness ==
    /\ Len(fetch.sent) = 3
    /\ fetch.sent[2].base_url
    /\ ~fetch.sent[3].base_url
    /\ fetch.served[1].next_url # fetch.served[2].next_url

-----------------------------------------------------------------------------
(* Claims about record_call and the frame of wait_if_needed *)

\* C22: record_call() appends the current instant to the minute history,
\* appends it to the day history exactly when calls_per_day is configured,
\* sets last_call_time to that instant and removes nothing.
C22_RecordCallAppends ==
    [][\A t \in Threads :
          (pc[t] = "r_append" /\ pc'[t] # "r_append") =>
              /\ local[t].current_time = now
              /\ minute_calls' = Append(minute_calls, now)
              /\ day_calls' = IF config.calls_per_day # None
                              THEN Append(day_calls, now) ELSE day_calls
              /\ last_call_time' = now]_vars

\* calls were recorded without a daily limit: the day history stayed empty
C22_Witness ==
    /\ config.calls_per_day = None
    /\ Len(recorded) >= 2
    /\ day_calls = <<>>
    /\ minute_calls # <<>>
    /\ last_call_time = recorded[Len(recorded)]

\* calls were recorded under a daily limit: both histories took them
C22_WitnessDay ==
    /\ config.calls_per_day = 2
    /\ Len(recorded) = 2
    /\ day_calls = recorded

\* C23: with calls_per_day unset, wait_if_needed() never raises
\* quota-exceeded, whatever has been recorded.
C23_NoQuotaWithoutDayLimit ==
    config.calls_per_day = None =>
        \A t \in Threads :
            /\ local[t].exc # "RateLimitException"
            /\ pc[t] # "w_store_day"

\* MaxCalls calls recorded within one day and no daily limit
C23_Witness ==
    /\ config.calls_per_day = None
    /\ Len(recorded) = MaxCalls
    /\ InWindow(recorded, now, DAY) = MaxCalls

\* wait_if_needed() has just returned to, or raised into, its caller
WaitReturned(t) ==
    /\ local[t].hist # <<>>
    /\ \/ pc[t] = "rl_func"
       \/ pc[t] = "add_wait" /\ ~local[t].loaded
       \/ pc[t] = "done" /\ local[t].exc = "RateLimitException"

\* C24 as stated: when wait_if_needed() returns or raises, the minute
\* history, the day history and last_call_time are exactly what they were
\* when it was called.
C24_WaitLeavesHistory ==
    \A t \in Threads : WaitReturned(t) => History = local[t].hist

\* `after` is `before` without some of its oldest timestamps, all of them
\* at or before the cutoff
DroppedExpired(after, before, cutoff) ==
    \E k \in 0..Len(before) :
        /\ after = SubSeq(before, k + 1, Len(before))
        /\ \A i \in 1..k : before[i] <= cutoff

\* C24 amended: wait_if_needed() called by one thread at a time leaves
\* last_call_time as it was and appends nothing to either history; all it
\* does to them is drop timestamps that have left the 60 s / 24 h window.
C24_WaitOnlyPrunes ==
    \A t \in Threads :
        WaitReturned(t) =>
            /\ last_call_time = local[t].hist[3]
            /\ DroppedExpired(minute_calls, local[t].hist[1],
                              local[t].current_time - MINUTE)
            /\ DroppedExpired(day_calls, local[t].hist[2],
                              local[t].current_time - DAY)

\* the call found two timestamps in the minute history and left one
C24_Witness ==
    /\ WaitReturned(1)
    /\ Len(local[1].hist[1]) = 2
    /\ Len(minute_calls) = 1
    /\ last_call_time = minute_calls[1]

-----------------------------------------------------------------------------
(* The observers: RateLimiter.get_stats, lines 110-125, and                *)
(* BaseAPI.get_stats, lines 337-353                                        *)

\* how long after the previous operation the caller asks for a snapshot
SnapshotGaps == {0, MINUTE}

\* lines 112-125: the dictionary returned by RateLimiter.get_stats
LimiterSnapshot(current_time) ==
    [calls_last_minute |-> Len(Prune(minute_calls, current_time - MINUTE)),
     limit_per_minute |-> config.calls_per_minute,
     calls_last_day |-> Len(Prune(day_calls, current_time - DAY)),
     limit_per_day |-> config.calls_per_day,
     last_call_ago_seconds |->
         IF Truthy(last_call_time) THEN current_time - last_call_time
                                   ELSE None]

\* mutant: the pruned lists assigned back to the limiter, as
\* wait_if_needed does
GetStatsEffect_PrunesInPlace(current_time) ==
    /\ minute_calls' = Prune(minute_calls, current_time - MINUTE)
    /\ day_calls' = Prune(day_calls, current_time - DAY)
    /\ UNCHANGED <<last_call_time, recorded>>

\* mutant: the observation counted as a call
GetStatsEffect_Records(current_time) ==
    /\ minute_calls' = Append(minute_calls, current_time)
    /\ UNCHANGED <<day_calls, last_call_time, recorded>>

\* lines 116-117: the pruned lists are locals of get_stats; nothing is
\* assigned to the limiter
GetStatsEffect(current_time) ==
    UNCHANGED <<minute_calls, day_calls, last_call_time, recorded>>

\* lines 110-125, called between two invocations; local.seen keeps what the
\* caller has been handed since its last invocation
LimiterGetStats(t) ==
    /\ pc[t] = "idle"
    /\ Len(local[t].seen) < MaxSnapshots
    /\ \E g \in SnapshotGaps : now' = now + g
    /\ local' = [local EXCEPT ![t].seen =
                    Append(@, [observer |-> "RateLimiter", at |-> now',
                               rate_limiter |-> LimiterSnapshot(now')])]
    /\ GetStatsEffect(now')
    /\ UNCHANGED <<refused, sent, fetch, config, stats, pc, ncalls>>

\* lines 337-353: the counters, the limiter's snapshot and the configuration
ApiGetStats(t) ==
    /\ pc[t] = "idle"
    /\ Len(local[t].seen) < MaxSnapshots
    /\ \E g \in SnapshotGaps : now' = now + g
    /\ local' = [local EXCEPT ![t].seen =
                    Append(@, [observer |-> "BaseAPI", at |-> now',
                               rate_limiter |-> LimiterSnapshot(now'),
                               stats |-> stats,
                               config |->
                                 [enabled |-> config.enabled,
                                  calls_per_minute |-> config.calls_per_minute,
                                  calls_per_day |-> config.calls_per_day]])]
    /\ GetStatsEffect(now')
    /\ UNCHANGED <<refused, sent, fetch, config, stats, pc, ncalls>>

ObserverConfigs ==
    [calls_per_minute : {1}, calls_per_day : {None, 1},
     min_delay_seconds : {5}, max_retries : {0}, enabled : {TRUE}]

\* GET requests a minute apart or back to back, answered or timed out
ObserverWorkload ==
    [requests |-> MaxRequests, gaps |-> {0, MINUTE}, methods |-> {"GET"},
     outcomes |-> [kind : {"status"}, code : {200, 503}]
                     \cup [kind : {"timeout"}, code : {0}],
     durations |-> Durations, traced |-> FALSE]

InitObserver == InitWith(ObserverConfigs)

NextObserver ==
    \/ MakeRequestSteps(1, ObserverWorkload)
    \/ LimiterGetStats(1)
    \/ ApiGetStats(1)

SpecObserver == InitObserver /\ [][NextObserver]_vars

\* C25: RateLimiter.get_stats() and BaseAPI.get_stats() leave the minute
\* history, the day history, last_call_time and every statistics counter
\* as they were, and return at the instant they were called.
C25_ObserversReadOnly ==
    [][\A t \in Threads :
          Len(local'[t].seen) > Len(local[t].seen) =>
              /\ minute_calls' = minute_calls
              /\ day_calls' = day_calls
              /\ last_call_time' = last_call_time
              /\ stats' = stats
              /\ local'[t].seen[Len(local'[t].seen)].at = now']_vars

\* both observers have answered; the first snapshot left out a timestamp
\* that had expired, and the minute history still holds it
C25_Witness ==
    /\ Len(local[1].seen) = 2
    /\ local[1].seen[1].observer = "RateLimiter"
    /\ local[1].seen[2].observer = "BaseAPI"
    /\ local[1].seen[1].rate_limiter.calls_last_minute < Len(minute_calls)
    /\ local[1].seen[2].stats.total_calls >= 1

\* C26: two get_stats() calls at the same instant, with no wait_if_needed()
\* or record_call() between them, return the same calls_last_minute,
\* calls_last_day, limit_per_minute and limit_per_day.
C26_SnapshotIdempotent ==
    \A t \in Threads :
        \A i \in 1..(Len(local[t].seen) - 1) :
            LET a == local[t].seen[i].rate_limiter
                b == local[t].seen[i + 1].rate_limiter
            IN  local[t].seen[i].at = local[t].seen[i + 1].at =>
                    /\ a.calls_last_minute = b.calls_last_minute
                    /\ a.calls_last_day = b.calls_last_day
                    /\ a.limit_per_minute = b.limit_per_minute
                    /\ a.limit_per_day = b.limit_per_day

\* two snapshots of the limiter at one instant, a call inside both windows
C26_Witness ==
    /\ Len(local[1].seen) = 2
    /\ local[1].seen[1].observer = "RateLimiter"
    /\ local[1].seen[2].observer = "RateLimiter"
    /\ local[1].seen[1].at = local[1].seen[2].at
    /\ local[1].seen[2].rate_limiter.calls_last_minute = 1
    /\ local[1].seen[2].rate_limiter.calls_last_day = 1

\* C27: every _make_request() on an enabled configuration adds the time
\* that passed inside rate-limiter admission to total_wait_time, once, and
\* total_wait_time never decreases.
C27_WaitTimeAccounted ==
    \A t \in Threads :
        /\ Gained(t, "total_wait_time") >= 0
        /\ (Finished(t) /\ local[t].hist # <<>>) =>
              Gained(t, "total_wait_time") = local[t].slept

-----------------------------------------------------------------------------
(* Credential injection, base_api.py lines 238-242 and the providers'      *)
(* overrides                                                               *)

Providers == {"AlphaVantageApi", "MassiveApi", "YahooFinanceApi"}

\* base_api.py line 302, overridden by yahoo_finance_api.py lines 30-32
ShouldAddApiKeyToParams(provider) == provider # "YahooFinanceApi"

\* mutant: the override of massive_api.py missing
ApiKeyParamName_Base(provider) == "apikey"

\* base_api.py line 313 and alpha_vantage_api.py line 39: 'apikey';
\* massive_api.py line 26: 'apiKey'
ApiKeyParamName(provider) ==
    IF provider = "MassiveApi" THEN "apiKey" ELSE "apikey"

\* _get_api_key_params()
GetApiKeyParams(provider, api_key) ==
    [k \in {ApiKeyParamName(provider)} |-> api_key]

\* {**a, **b}: a new mapping in which b wins
Merged(a, b) ==
    [k \in DOMAIN a \cup DOMAIN b |-> IF k \in DOMAIN b THEN b[k] ELSE a[k]]

\* lines 239-242: the mapping handed to session.request; an absent params
\* argument counts as the empty mapping
AddApiKey(cfg, params) ==
    IF cfg.api_key # "" /\ ShouldAddApiKeyToParams(cfg.provider)
    THEN Merged(params, GetApiKeyParams(cfg.provider, cfg.api_key))
    ELSE params

\* the parameters a caller passes: any of these names, the provider's key
\* names among them
ParamNames == {"symbol", "apikey", "apiKey"}
ParamValues == {"x", "y"}
CallerParams ==
    UNION {[names -> ParamValues] : names \in SUBSET ParamNames}

\* an APIConfig passes __post_init__ only with a non-empty api_key
CredentialConfigs ==
    [calls_per_minute : {60}, calls_per_day : {None},
     min_delay_seconds : {5}, max_retries : {3}, enabled : {TRUE},
     provider : Providers, api_key : {"k1", "k2"}]

\* line 200: _make_request(method, url, params=...)
CallWithParams(t) ==
    /\ pc[t] = "idle"
    /\ \E params \in CallerParams :
          local' = [local EXCEPT ![t] =
                      [NoLocal EXCEPT !.caller = "make_request",
                                      !.params = params]]
    /\ pc' = [pc EXCEPT ![t] = "mr_params"]
    /\ UNCHANGED <<refused, sent, fetch, now, config, minute_calls, day_calls,
                   last_call_time, stats, recorded, ncalls>>

\* lines 239-242: the local name params is bound to a new mapping; the
\* caller's mapping is not written to
InjectApiKey(t) ==
    /\ pc[t] = "mr_params"
    /\ local' = [local EXCEPT ![t].wire = AddApiKey(config, local[t].params)]
    /\ pc' = [pc EXCEPT ![t] = "mr_sent"]
    /\ UNCHANGED <<refused, sent, fetch, now, config, minute_calls, day_calls,
                   last_call_time, stats, recorded, ncalls>>

InitCredentials == InitWith(CredentialConfigs)

NextCredentials ==
    \/ CallWithParams(1)
    \/ InjectApiKey(1)

SpecCredentials == InitCredentials /\ [][NextCredentials]_vars

\* C28: for a provider that puts its key in the parameters, the mapping
\* sent is the caller's parameters plus 'apikey' (base, AlphaVantage) or
\* 'apiKey' (Massive) holding config.api_key, the key winning over a
\* caller's parameter of that name; for Yahoo nothing is added.
C28_CredentialInjection ==
    \A t \in Threads :
        pc[t] = "mr_sent" =>
            LET p == local[t].params
                w == local[t].wire
                name == IF config.provider = "MassiveApi" THEN "apiKey"
                                                          ELSE "apikey"
            IN  IF config.provider = "YahooFinanceApi"
                THEN w = p
                ELSE /\ DOMAIN w = DOMAIN p \cup {name}
                     /\ w[name] = config.api_key
                     /\ \A k \in DOMAIN p \ {name} : w[k] = p[k]

\* Massive: the caller's own 'apiKey' was overridden, its 'apikey' kept
C28_Witness ==
    /\ pc[1] = "mr_sent"
    /\ config.provider = "MassiveApi"
    /\ DOMAIN local[1].params = {"apiKey", "apikey"}
    /\ local[1].params["apiKey"] = "x"
    /\ local[1].wire["apiKey"] = "k1"
    /\ local[1].wire["apikey"] = "y"

-----------------------------------------------------------------------------
(* RateLimitConfig.__post_init__, src/src/config/settings.py lines 22-29,  *)
(* and the limiter built from the validated configuration                  *)

\* no RateLimitConfig has been constructed yet
NoConfig ==
    [calls_per_minute |-> 0, calls_per_day |-> None, min_delay_seconds |-> 0,
     max_retries |-> 0, enabled |-> FALSE]

\* the arguments RateLimitConfig(...) is tried with; None being -1 here, the
\* negative calls_per_day tried is -2
CandidateCallsPerMinute == {-2, 0, 1}
CandidateCallsPerDay == {None, -2, 0, 1}
CandidateMinDelay == {-5, 0, 5}

\* mutant: zero calls per minute let through
PostInitRaises_ZeroAllowed(cfg) ==
    \/ cfg.calls_per_minute < 0
    \/ cfg.calls_per_day # None /\ cfg.calls_per_day <= 0
    \/ cfg.min_delay_seconds < 0

\* settings.py lines 24-29: the three ValueErrors
PostInitRaises(cfg) ==
    \/ cfg.calls_per_minute <= 0
    \/ cfg.calls_per_day # None /\ cfg.calls_per_day <= 0
    \/ cfg.min_delay_seconds < 0

\* RateLimitConfig(...): the dataclass stores its fields, then
\* __post_init__ raises or the object reaches RateLimiter.__init__
Construct(t) ==
    /\ pc[t] = "new"
    /\ \E cpm \in CandidateCallsPerMinute, cpd \in CandidateCallsPerDay,
          delay \in CandidateMinDelay :
          /\ config' = [calls_per_minute |-> cpm, calls_per_day |-> cpd,
                        min_delay_seconds |-> delay, max_retries |-> 0,
                        enabled |-> TRUE]
          /\ pc' = [pc EXCEPT ![t] =
                      IF PostInitRaises(config') THEN "failed" ELSE "idle"]
    /\ UNCHANGED <<refused, sent, fetch, now, minute_calls, day_calls,
                   last_call_time, stats, local, recorded, ncalls>>

InitConfig ==
    /\ fetch = NoFetch
    /\ refused = 0
    /\ sent = <<>>
    /\ now = StartTime
    /\ config = NoConfig
    /\ minute_calls = <<>>
    /\ day_calls = <<>>
    /\ last_call_time = None
    /\ stats = InitStats
    /\ pc = [t \in Threads |-> IF t = 1 THEN "new" ELSE "idle"]
    /\ local = [t \in Threads |-> NoLocal]
    /\ recorded = <<>>
    /\ ncalls = 0

NextConfig ==
    \/ Construct(1)
    \/ RateLimitedCall(1)
    \/ WaitIfNeeded(1)
    \/ RateLimitedFunc(1)
    \/ RecordCallSteps(1)
    \/ Return(1)

SpecConfig == InitConfig /\ [][NextConfig]_vars

\* C29: constructing a RateLimitConfig fails exactly when
\* calls_per_minute <= 0, or calls_per_day is given and <= 0, or
\* min_delay_seconds < 0; so every limiter that runs has positive limits
\* and a non-negative delay, and the oldest timestamp wait_if_needed() reads
\* at lines 70 and 91 exists whenever a limit is found reached.
C29_ValidatedAtConstruction ==
    pc[1] # "new" =>
        /\ pc[1] = "failed" <=>
              \/ config.calls_per_minute <= 0
              \/ config.calls_per_day # None /\ config.calls_per_day <= 0
              \/ config.min_delay_seconds < 0
        /\ pc[1] # "failed" =>
              /\ config.calls_per_minute >= 1
              /\ config.calls_per_day = None \/ config.calls_per_day >= 1
              /\ config.min_delay_seconds >= 0
              /\ (pc[1] = "w_check_min"
                    /\ Len(minute_calls) >= config.calls_per_minute) =>
                    minute_calls # <<>>
              /\ (pc[1] = "w_store_day"
                    /\ Len(local[1].tmp) >= config.calls_per_day) =>
                    local[1].tmp # <<>>
              /\ local[1].exc \in {"", "RateLimitException", "Exception"}

\* a validated limiter has found its per-minute limit reached
C29_Witness ==
    /\ pc[1] = "w_sleep_minute"
    /\ config.calls_per_minute = 1
    /\ config.calls_per_day = 1
    /\ minute_calls # <<>>

\* construction was refused for calls_per_day = 0 alone
C29_WitnessRefused ==
    /\ pc[1] = "failed"
    /\ config.calls_per_minute = 1
    /\ config.calls_per_day = 0
    /\ config.min_delay_seconds = 0

\* C30: right after a pruning step of wait_if_needed() made at instant t,
\* the minute history holds only timestamps > t - 60 s and, when
\* calls_per_day is set, the day history only timestamps > t - 24 h; what
\* the step removed had expired, nothing unexpired was removed.
C30_PruningInvariant ==
    [][\A t \in Threads :
          /\ (pc[t] = "w_store_min" /\ pc'[t] # pc[t]) =>
                /\ \A i \in 1..Len(minute_calls') :
                      minute_calls'[i] > now - MINUTE
                /\ DroppedExpired(minute_calls', minute_calls, now - MINUTE)
          /\ (pc[t] = "w_store_day" /\ pc'[t] # pc[t]) =>
                /\ config.calls_per_day # None
                /\ \A i \in 1..Len(day_calls') : day_calls'[i] > now - DAY
                /\ DroppedExpired(day_calls', day_calls, now - DAY)]_vars

\* a pruning step has just removed one of two timestamps
C30_Witness ==
    /\ pc[1] = "w_check_min"
    /\ Len(local[1].hist[1]) = 2
    /\ Len(minute_calls) = 1
    /\ minute_calls[1] > now - MINUTE
    /\ local[1].hist[1][1] <= now - MINUTE

\* the day history was pruned to nothing a day after its only call
C30_WitnessDay ==
    /\ WaitReturned(1)
    /\ config.calls_per_day = 1
    /\ Len(local[1].hist[2]) = 1
    /\ day_calls = <<>>

-----------------------------------------------------------------------------
(* Claims about callers sharing one limiter and one pipeline *)

\* a history in the order wait_if_needed() relies on at lines 70 and 91
Sorted(calls) == \A i \in 1..(Len(calls) - 1) : calls[i] <= calls[i + 1]

\* C31: in every reachable state both call histories are in non-decreasing
\* order, so that their element 0 is their oldest timestamp, also when
\* several callers sharing the limiter run record_call().
C31_HistoriesOrdered ==
    /\ Sorted(minute_calls)
    /\ Sorted(day_calls)

\* the timestamps of `calls`
Elements(calls) == {calls[i] : i \in 1..Len(calls)}

\* C38: a timestamp appended by record_call() while another caller's
\* wait_if_needed() is pruning stays in the minute history, and in the day
\* history when a daily limit is set, for as long as it is inside its
\* window.
C38_NoRecordedCallLost ==
    \A i \in 1..Len(recorded) :
        /\ recorded[i] > now - MINUTE => recorded[i] \in Elements(minute_calls)
        /\ (config.calls_per_day # None /\ recorded[i] > now - DAY) =>
              recorded[i] \in Elements(day_calls)

\* C39: when every thread has completed one _make_request() with a success
\* response, total_calls and successful_calls have each risen by the number
\* of threads and total_wait_time by the sum of their admission waits.
C39_StatisticsExact ==
    (\A t \in Threads :
        Finished(t) /\ local[t].exc = "" /\ local[t].status = 200) =>
        /\ stats.total_calls = Cardinality(Threads)
        /\ stats.successful_calls = Cardinality(Threads)
        /\ stats.total_wait_time = local[1].wait_time + local[2].wait_time

-----------------------------------------------------------------------------
(* The attempts one sequential caller of the pipeline puts on the wire *)

WireConfigs ==
    [calls_per_minute : {1, 2}, calls_per_day : {None, 2},
     min_delay_seconds : {0, 5}, max_retries : {0, 1}, enabled : {TRUE}]

\* every attempt sent is logged
WireWorkload ==
    [requests |-> MaxRequests, gaps |-> {0, MINUTE}, methods |-> {"GET"},
     outcomes |-> [kind : {"status"}, code : {200, 503}]
                     \cup [kind : {"timeout"}, code : {0}],
     durations |-> Durations, traced |-> TRUE]

InitWire == InitWith(WireConfigs)

NextWire == MakeRequestSteps(1, WireWorkload)

SpecWire == InitWire /\ [][NextWire]_vars

\* C34: for sequential _make_request() calls on one pipeline, every window
\* of 60 consecutive seconds holds at most calls_per_minute HTTP attempts
\* sent to the provider, transport-level retries and attempts of calls that
\* end in a timeout or in retry exhaustion included.
C34_WireVolumeBound ==
    \A i \in 1..Len(sent) :
        InWindow(sent, sent[i], MINUTE) <= config.calls_per_minute

-----------------------------------------------------------------------------
(* Suspension and recovery of wait_if_needed under one sequential caller *)

\* C32: when the pruned minute count is >= calls_per_minute,
\* wait_if_needed() suspends for exactly
\* 60 s - (current_time - oldest minute timestamp) + 0.1 s, which is
\* positive; after that one suspension and the re-prune the minute count is
\* below calls_per_minute, so the per-day step is never reached with a full
\* minute window.
C32_MinuteSuspension ==
    /\ pc[1] = "w_sleep_minute" =>
          /\ Len(minute_calls) >= config.calls_per_minute
          /\ local[1].wake - local[1].asleep =
                MINUTE - (local[1].current_time - minute_calls[1]) + BUFFER
          /\ local[1].wake - local[1].asleep > 0
    /\ pc[1] = "w_day" => Len(minute_calls) < config.calls_per_minute
    /\ local[1].minute_sleeps <= 1

\* one per-minute suspension was taken and the re-prune left a timestamp in
\* the history, one short of the limit
C32_Witness ==
    /\ pc[1] = "w_day"
    /\ local[1].minute_sleeps = 1
    /\ config.calls_per_minute = 2
    /\ Len(minute_calls) = 1

\* thread t is inside wait_if_needed()
InWait(t) ==
    pc[t] \in {"w_start", "w_sleep_min", "w_build_min", "w_store_min",
               "w_check_min", "w_sleep_minute", "w_day", "w_store_day"}

\* the longest a sleep lasts beyond the duration asked for
Overshoot == CHOOSE j \in Jitter : \A k \in Jitter : k <= j

\* the suspensions of one wait_if_needed(): at most one of each kind, the
\* per-minute one asked to last at most 60.1 s, and nothing slept beyond
\* those two
BoundedSuspension ==
    /\ local[1].delay_sleeps <= 1
    /\ local[1].minute_sleeps <= 1
    /\ pc[1] = "w_sleep_minute" =>
          local[1].wake - local[1].asleep <= MINUTE + BUFFER
    /\ (InWait(1) \/ WaitReturned(1)) =>
          local[1].slept <= config.min_delay_seconds + MINUTE + BUFFER
                               + 2 * Overshoot

\* limits that a second call already reaches
WaitConfigs ==
    [calls_per_minute : {1}, calls_per_day : {None, 1},
     min_delay_seconds : {0, 5}, max_retries : {0}, enabled : {TRUE}]

InitWait == InitWith(WaitConfigs)

\* one sequential caller whose thread is scheduled and whose sleeps end
SpecLimiterFair ==
    InitWait /\ [][NextLimiter]_vars /\ WF_vars(WaitIfNeeded(1))

\* C36: for a sequential caller wait_if_needed() always comes to an end,
\* returning or raising quota-exceeded, after at most one min-delay
\* suspension and at most one per-minute suspension of at most 60.1 s; it
\* does not sleep for the daily window.
C36_WaitTerminates ==
    /\ []BoundedSuspension
    /\ InWait(1) ~> ~InWait(1)

\* quota-exceeded was raised after both suspensions were taken
C36_Witness ==
    /\ pc[1] = "done"
    /\ local[1].exc = "RateLimitException"
    /\ local[1].delay_sleeps = 1
    /\ local[1].minute_sleeps = 1

\* quota-exceeded raised by wait_if_needed() calls before the one thread t
\* is in
PriorRefusals(t) ==
    refused - (IF local[t].exc = "RateLimitException" THEN 1 ELSE 0)

\* C37: once wait_if_needed() has raised quota-exceeded, a further
\* wait_if_needed() raises again exactly when calls_per_day recorded
\* timestamps are still within the last 24 h, and is admitted as soon as
\* fewer are: the limiter does not stay in the exceeded state.
C37_DailyQuotaRecovery ==
    (WaitReturned(1) /\ Truthy(config.calls_per_day)
                     /\ PriorRefusals(1) > 0) =>
        (local[1].exc = "RateLimitException"
            <=> InWindow(recorded, local[1].current_time, DAY)
                   >= config.calls_per_day)

\* a call is admitted after a refusal: the only recorded call has left the
\* 24-hour window
C37_Witness ==
    /\ pc[1] = "rl_func"
    /\ config.calls_per_day = 1
    /\ refused = 1
    /\ Len(recorded) = 1
    /\ recorded[1] <= local[1].current_time - DAY

\* a second refusal while the recorded call is still within 24 h
C37_WitnessRefused ==
    /\ pc[1] = "done"
    /\ local[1].exc = "RateLimitException"
    /\ refused = 2
    /\ Len(recorded) = 1
    /\ recorded[1] > local[1].current_time - DAY

-----------------------------------------------------------------------------
(* The provider clients and their way to the network:                      *)
(* alpha_vantage_api.py, massive_api.py, yahoo_finance_api.py              *)

ClientConfigs ==
    [calls_per_minute : {1}, calls_per_day : {None, 1},
     min_delay_seconds : {0, 5}, max_retries : {0}, enabled : BOOLEAN,
     provider : Providers, api_key : {"k1"}]

\* every attempt is answered, with a success or a client error, and logged
ClientWorkload ==
    [requests |-> MaxRequests, gaps |-> {0, MINUTE}, methods |-> {"GET"},
     outcomes |-> [kind : {"status"}, code : {200, 404}],
     durations |-> Durations, traced |-> TRUE]

\* AlphaVantageApi and MassiveApi fetch with self.get(), which is
\* _make_request(); YahooFinanceApi calls the yfinance library
UsesPipeline(provider) == provider # "YahooFinanceApi"

\* yahoo_finance_api.py lines 63, 102, 148-149, 197, 229, 285: yf.screen,
\* yf.Ticker(...).history and yf.download contact the provider; whatever
\* they raise is caught and logged by the operation
YfCall(t, W) ==
    /\ pc[t] = "idle"
    /\ ncalls < W.requests
    /\ ncalls' = ncalls + 1
    /\ \E g \in W.gaps : now' = now + g
    /\ sent' = Append(sent, now')
    /\ pc' = [pc EXCEPT ![t] = "done"]
    /\ local' = [local EXCEPT ![t] = [NoLocal EXCEPT !.caller = "yfinance"]]
    /\ UNCHANGED <<refused, fetch, config, minute_calls, day_calls,
                   last_call_time, stats, recorded>>

\* an operation of the provider client that fetches from the provider
ProviderOperation(t, W) ==
    IF UsesPipeline(config.provider) THEN MakeRequest(t, W) ELSE YfCall(t, W)

InitClients == InitWith(ClientConfigs)

NextClients ==
    \/ ProviderOperation(1, ClientWorkload)
    \/ WaitIfNeeded(1)
    \/ StatsLoad(1)
    \/ StatsStore(1)
    \/ Attempt(1, ClientWorkload)
    \/ RecordCallSteps(1)
    \/ CheckStatus(1)
    \/ Return(1)

SpecClients == InitClients /\ [][NextClients]_vars

\* C35: every contact a provider client makes with its provider has passed
\* the enabled check and the limiter's admission of _make_request() and is
\* recorded by record_call(): a disabled client sends nothing, the attempts
\* sent respect the per-minute limit, and once an operation is over every
\* attempt sent has its recorded timestamp.
C35_PipelineOnlyPath ==
    /\ sent # <<>> => config.enabled
    /\ \A i \in 1..Len(sent) :
          InWindow(sent, sent[i], MINUTE) <= config.calls_per_minute
    /\ pc[1] \in {"idle", "done"} => Len(recorded) = Len(sent)

-----------------------------------------------------------------------------
(* The counters of BaseAPI.stats across sequential calls *)

\* C33: whenever no _make_request() is under way, after any sequence of
\* sequential invocations with any mix of outcomes,
\* total_calls = successful_calls + failed_calls.
C33_CountersAddUp ==
    pc[1] \in {"idle", "done"} =>
        stats.total_calls = stats.successful_calls + stats.failed_calls

====
